---- MODULE Spec2Model ----
(***************************************************************************)
(* A model of the goloop/openai client: the bounded fan-out of Models,     *)
(* Files and FineTunes, the batch save of generated images, the request   *)
(* marshaler and the transport executor (doRequest).                       *)
(*                                                                         *)
(* Strings of the program are TLA+ strings; a URL is the sequence of its   *)
(* cleaned path segments behind the base URL; an error value is a record   *)
(* [kind, code, msg] (kind "nil" is Go's nil error).                       *)
(***************************************************************************)
EXTENDS Integers, Sequences, FiniteSets, TLC

\* ------------------------------------------------------------------ bounds

\* The longest ID list (or item list of a batch save) a call is given.
MaxKeys == 2

\* The largest ParallelTasks value a client is configured with.
MaxParallel == 2

\* The IDs a caller passes: identifiers of remote resources, and the empty
\* string, which the signatures accept as well.
IDs == {"a", "b", ""}

\* ------------------------------------------------------------ error values

NoErr == [kind |-> "nil", code |-> 0, msg |-> ""]

ErrRequestTimedOut == [kind |-> "ErrRequestTimedOut", code |-> 0, msg |-> ""]

\* An error of a standard-library call (http.Client.Do, ioutil.ReadAll,
\* json.Unmarshal, ...), passed on as it is: `what` names the call.
LibErr(what) == [kind |-> what, code |-> 0, msg |-> ""]

\* fmt.Errorf("non-success status code %d: %s", code, msg)
StatusErr(code, msg) == [kind |-> "status", code |-> code, msg |-> msg]

\* fmt.Errorf("failed to read error body: %v", err)
ReadErrorBodyErr == [kind |-> "failed to read error body", code |-> 0, msg |-> ""]

\* ------------------------------------------------------------------- URLs

apiBaseURL == "https://api.openai.com/v1"

\* A base URL url.Parse rejects.
MalformedBaseURL == "http://[::1"

\* path.Join drops empty elements and cleans the separators, so the result
\* is the sequence of the non-empty segments ("/models" and "models" are the
\* same segment, written without the separator here).
pathJoin(pathParts) == SelectSeq(pathParts, LAMBDA s : s # "")

\* urlBuild: ("", err) when the base URL does not parse, else the base URL
\* followed by the joined path. The empty URL is the empty sequence.
urlBuild(baseURL, pathParts) ==
    IF baseURL = MalformedBaseURL
    THEN [url |-> <<>>, err |-> LibErr("url.Parse")]
    ELSE [url |-> <<baseURL>> \o pathJoin(pathParts), err |-> NoErr]

\* Client.Endpoint: the URL urlBuild makes, its error dropped.
Endpoint(c, p) == urlBuild(c.apiBaseURL, p).url

\* ----------------------------------------------------- bodies and decoding

\* A response body, by what a JSON decoder finds in it: whether the text is
\* syntactically valid JSON, whether some member has a JSON type the target
\* struct does not take, the text of error.message, the id of the resource
\* and the ids of the data list. The text of a truncated document still holds
\* its members, so a body of invalid syntax may carry a message.
Body(syntax, mismatch, message, id, data) ==
    [syntax |-> syntax, mismatch |-> mismatch, message |-> message,
     id |-> id, data |-> data]

\* []byte{}
EmptyBytes == Body(FALSE, FALSE, "", "", <<>>)

\* json.Unmarshal(body, &v): a syntax error is found before any member is
\* stored and leaves v untouched; a member of the wrong type is skipped, the
\* others are stored, and the error is reported at the end.
jsonUnmarshal(body) ==
    IF ~body.syntax
    THEN [err |-> LibErr("json.Unmarshal"), message |-> "", id |-> "", data |-> <<>>]
    ELSE [err |-> IF body.mismatch THEN LibErr("json.Unmarshal") ELSE NoErr,
          message |-> body.message, id |-> body.id, data |-> body.data]

\* A pointer to a response struct (ModelDetails, FileDetails, ...): nil, or
\* the struct with the fields the decoder stores.
NilPtr == [isNil |-> TRUE, ID |-> "", Data |-> <<>>]

NewResp == [isNil |-> FALSE, ID |-> "", Data |-> <<>>]

\* --------------------------------------------------------------- transport

\* The HTTP status codes a server answers with.
StatusCodes == {199, 200, 399, 400, 404}

\* isSuccessfulCode: http.StatusOK <= statusCode < http.StatusBadRequest
isSuccessfulCode_le(statusCode) == statusCode >= 200 /\ statusCode <= 400

isSuccessfulCode(statusCode) == statusCode >= 200 /\ statusCode < 400

\* What c.HTTPClient().Do(req) and the read of the response body yield:
\* doErr is "nil", "timeout" (a net.Error with Timeout()) or "other";
\* readErr says that ioutil.ReadAll fails on the body.
Transport(doErr, status, body, readErr) ==
    [doErr |-> doErr, status |-> status, body |-> body, readErr |-> readErr]

\* No request has been handed to the transport.
NoTransport == Transport("none", 0, EmptyBytes, FALSE)

\* doRequest's three results: the bytes, the error and the goal as decoded.
Result(body, err, goal) == [body |-> body, err |-> err, goal |-> goal]

\* doRequest, given what the transport yields for the request.
doRequest_decodeNil(t, goal) ==
    IF t.doErr # "nil"
    THEN Result(EmptyBytes,
                IF t.doErr = "timeout" THEN ErrRequestTimedOut
                                       ELSE LibErr("http.Client.Do"), goal)
    ELSE IF ~isSuccessfulCode(t.status)
    THEN IF t.readErr
         THEN Result(EmptyBytes, ReadErrorBodyErr, goal)
         ELSE Result(EmptyBytes,
                     StatusErr(t.status, jsonUnmarshal(t.body).message), goal)
    ELSE IF t.readErr
    THEN Result(EmptyBytes, LibErr("ioutil.ReadAll"), goal)
    ELSE LET u == jsonUnmarshal(t.body)
             g == [isNil |-> goal.isNil, ID |-> u.id, Data |-> u.data]
         IN  IF goal.isNil THEN Result(EmptyBytes, LibErr("json.Unmarshal"), goal)
             ELSE IF u.err # NoErr THEN Result(EmptyBytes, u.err, g)
             ELSE Result(t.body, NoErr, g)

doRequest(t, goal) ==
    IF t.doErr # "nil"
    THEN Result(EmptyBytes,
                IF t.doErr = "timeout" THEN ErrRequestTimedOut
                                       ELSE LibErr("http.Client.Do"), goal)
    ELSE IF ~isSuccessfulCode(t.status)
    THEN IF t.readErr
         THEN Result(EmptyBytes, ReadErrorBodyErr, goal)
         ELSE Result(EmptyBytes,
                     StatusErr(t.status, jsonUnmarshal(t.body).message), goal)
    ELSE IF t.readErr
    THEN Result(EmptyBytes, LibErr("ioutil.ReadAll"), goal)
    ELSE IF ~goal.isNil
    THEN LET u == jsonUnmarshal(t.body)
             g == [isNil |-> FALSE, ID |-> u.id, Data |-> u.data]
         IN  IF u.err # NoErr THEN Result(EmptyBytes, u.err, g)
                              ELSE Result(t.body, NoErr, g)
    ELSE Result(t.body, NoErr, goal)

\* ------------------------------------------------------ request marshaler

\* A request object by its type and the fields its validation and its
\* marshaling read; NoRequest is the nil body of a GET.
NoRequest == [type |-> "nil"]

\* A float64 field takes a number or NaN, which json.Marshal rejects.
Floats == {"0.5", "NaN"}

\* json.Marshal(b) fails on a value JSON cannot express.
jsonMarshal(b) ==
    IF "Temperature" \in DOMAIN b /\ b.Temperature = "NaN"
    THEN [err |-> LibErr("json.Marshal"), json |-> NoRequest]
    ELSE [err |-> NoErr, json |-> b]

\* The headers both marshalers set from the client: the bearer key, and the
\* organization when there is one.
AuthHeaders_always(c) ==
    {<<"Authorization", <<"Bearer", c.apiKey>> >>,
     <<"OpenAI-Organization", <<c.orgID>> >>}

AuthHeaders(c) ==
    {<<"Authorization", <<"Bearer", c.apiKey>> >>}
    \cup (IF c.orgID # "" THEN {<<"OpenAI-Organization", <<c.orgID>> >>} ELSE {})

\* An outbound request, or the empty request returned beside an error.
Outbound(err, mode, m, u, body, header) ==
    [err |-> err, mode |-> mode, method |-> m, url |-> u, body |-> body,
     header |-> header]

\* newJSONRequest(c, m, u, b): the body is marshaled when there is one,
\* http.NewRequestWithContext fails on a nil context, and the headers are
\* the content type, the authorization and the client's additional headers.
newJSONRequest(c, m, u, b) ==
    LET tmp == IF b # NoRequest THEN jsonMarshal(b)
                                ELSE [err |-> NoErr, json |-> NoRequest]
    IN  IF tmp.err # NoErr
        THEN Outbound(tmp.err, "json", "", <<>>, NoRequest, {})
        ELSE IF c.context = "nil"
        THEN Outbound(LibErr("http.NewRequestWithContext"), "json", "", <<>>,
                      NoRequest, {})
        ELSE Outbound(NoErr, "json", m, u, tmp.json,
                      {<<"Content-Type", <<"application/json">> >>}
                      \cup AuthHeaders(c) \cup c.httpHeaders)

\* A field of a request struct in the order of declaration: its Go name,
\* the name in its json tag, and its type (file is *os.File).
Field(go, wire, type) == [go |-> go, wire |-> wire, type |-> type]

\* The tagged fields of the request types that are sent as multipart data.
Fields(t) ==
    CASE t = "ImageEditRequest" ->
            <<Field("Image", "image", "file"), Field("Mask", "mask", "file"),
              Field("Prompt", "prompt", "string"), Field("N", "n", "int"),
              Field("Size", "size", "string"),
              Field("ResponseFormat", "response_format", "string"),
              Field("User", "user", "string")>>
      [] t = "ImageVariationRequest" ->
            <<Field("Image", "image", "file"), Field("N", "n", "int"),
              Field("Size", "size", "string"),
              Field("ResponseFormat", "response_format", "string"),
              Field("User", "user", "string")>>
      [] t = "AudioTranscriptionRequest" ->
            <<Field("File", "file", "file"), Field("Model", "model", "string"),
              Field("Prompt", "prompt", "string"),
              Field("ResponseFormat", "response_format", "string"),
              Field("Temperature", "temperature", "float64"),
              Field("Language", "language", "string")>>
      [] t = "AudioTranslationRequest" ->
            <<Field("File", "file", "file"), Field("Model", "model", "string"),
              Field("Prompt", "prompt", "string"),
              Field("ResponseFormat", "response_format", "string"),
              Field("Temperature", "temperature", "float64")>>
      [] t = "FileUploadRequest" ->
            <<Field("File", "file", "file"), Field("Purpose", "purpose", "string")>>

\* The bytes of the files of the local file system.
FileContents(name) == <<"bytes of", name>>

NoBytes == <<>>

\* filepath.Base(file.Name())
Base(name) ==
    CASE name = "/in/a.png" -> "a.png"
      [] name = "/in/b.png" -> "b.png"
      [] OTHER -> name

\* io.Copy(fieldWriter, file): the bytes from the read offset to the end of
\* the file, after which the offset is at the end; reading a closed file
\* fails.
ioCopy(file) ==
    IF file.closed
    THEN [err |-> LibErr("io.Copy"), bytes |-> NoBytes, file |-> file]
    ELSE [err |-> NoErr,
          bytes |-> IF file.eof THEN NoBytes ELSE FileContents(file.name),
          file |-> [file EXCEPT !.eof = TRUE]]

\* json.Marshal(field.Interface()) of a field that is no string and no file.
jsonField_omitempty(type, v) ==
    IF type = "bool" THEN [err |-> NoErr, text |-> IF v THEN "true" ELSE ""]
    ELSE IF type = "int" THEN [err |-> NoErr, text |-> IF v = 0 THEN "" ELSE ToString(v)]
    ELSE IF v = "NaN" THEN [err |-> LibErr("json.Marshal"), text |-> ""]
    ELSE [err |-> NoErr, text |-> v]

jsonField(type, v) ==
    IF type = "bool" THEN [err |-> NoErr, text |-> IF v THEN "true" ELSE "false"]
    ELSE IF type = "int" THEN [err |-> NoErr, text |-> ToString(v)]
    ELSE IF v = "NaN" THEN [err |-> LibErr("json.Marshal"), text |-> ""]
    ELSE [err |-> NoErr, text |-> v]

\* A part of a multipart body: a form file or a form field.
FilePart(wire, filename, bytes) ==
    [name |-> wire, file |-> TRUE, filename |-> filename, value |-> bytes]

FieldPart(wire, text) ==
    [name |-> wire, file |-> FALSE, filename |-> "", value |-> text]

\* The loop of newDataRequest over the fields from the i-th on: the parts
\* written so far, the request as the reads leave it, and the first error.
RECURSIVE writeFields(_, _, _)
writeFields(b, i, parts) ==
    IF i > Len(Fields(b.type))
    THEN [err |-> NoErr, parts |-> parts, b |-> b]
    ELSE LET f == Fields(b.type)[i]
             v == b[f.go]
         IN  IF f.type = "file"
             THEN IF v.isNil THEN writeFields(b, i + 1, parts)
                  ELSE LET cp == ioCopy(v)
                           after == [b EXCEPT ![f.go] = cp.file]
                       IN  IF cp.err # NoErr
                           THEN [err |-> cp.err, parts |-> parts, b |-> after]
                           ELSE writeFields(after, i + 1,
                                    Append(parts, FilePart(f.wire, Base(v.name), cp.bytes)))
             ELSE IF f.type = "string"
             THEN writeFields(b, i + 1, Append(parts, FieldPart(f.wire, v)))
             ELSE LET j == jsonField(f.type, v)
                  IN  IF j.err # NoErr
                      THEN [err |-> j.err, parts |-> parts, b |-> b]
                      ELSE writeFields(b, i + 1, Append(parts, FieldPart(f.wire, j.text)))

\* The request object as a call of newDataRequest leaves it: the files it
\* has read are at their end.
afterDataRequest(b) == writeFields(b, 1, <<>>).b

\* newDataRequest(c, m, u, b): every tagged field becomes a part of the
\* multipart body, and the headers are the content type of the multipart
\* writer and the authorization.
newDataRequest(c, m, u, b) ==
    LET w == writeFields(b, 1, <<>>)
    IN  IF w.err # NoErr
        THEN Outbound(w.err, "multipart", "", <<>>, NoRequest, {})
        ELSE IF c.context = "nil"
        THEN Outbound(LibErr("http.NewRequestWithContext"), "multipart", "",
                      <<>>, NoRequest, {})
        ELSE Outbound(NoErr, "multipart", m, u, w.parts,
                      {<<"Content-Type", <<"multipart/form-data">> >>}
                      \cup AuthHeaders(c))

\* ------------------------------------------------------------- the server

\* The resources of a collection, as the server lists them.
AllIDs == <<"a", "b">>

\* What the transport can yield for a request sent to url: under a
\* cancelled context Do fails; otherwise the server answers for the resource
\* the URL names (its last segment) or with the whole collection, or fails.
Responses(url, ctxCancelled) ==
    IF ctxCancelled
    THEN {Transport("other", 0, EmptyBytes, FALSE)}
    ELSE {Transport("nil", 200,
                    Body(TRUE, FALSE, "",
                         IF Len(url) = 3 THEN url[3] ELSE "",
                         IF Len(url) = 2 THEN AllIDs ELSE <<>>), FALSE),
          Transport("nil", 404, Body(TRUE, FALSE, "not found", "", <<>>), FALSE),
          Transport("nil", 200, Body(FALSE, FALSE, "", "", <<>>), FALSE),
          Transport("timeout", 0, EmptyBytes, FALSE)}

\* ------------------------------------------------------------------ state

VARIABLES
    client,     \* the Client: apiKey, orgID, apiBaseURL, parallelTasks, ...
    cancelled,  \* the client's context has been cancelled
    pc,         \* the calling goroutine: idle, launch, wait, returned
    kind,       \* the operation called: Models, Files, FineTunes, ...
    keys,       \* its arguments: the IDs (the items of a batch save)
    explicit,   \* the caller passed an ID list (ids...), not bare arguments
    next,       \* the index the launch loop is at
    ipc,        \* per item: idle, spawned, acquired, stored, released, done
    sem,        \* the number of tokens in the semaphore channel
    wg,         \* the WaitGroup counter
    data,       \* the result slots
    errs,       \* the error slots
    started,    \* per item: how many times its operation was started
    sent,       \* per goroutine (0 is the caller): the URLs it sent requests to
    ret,        \* what the call returned: the list and the error
    dest,       \* the destination path of a batch save
    errors,     \* the shared error list of a batch save
    files,      \* the local file system: the files written, path and content
    drawn,      \* how many file names generateUniqueFilename has drawn
    request,    \* the request object a single-request operation was given
    built,      \* the outbound requests the marshaler built for the caller
    response,   \* what the transport yielded to the caller's doRequest
    result,     \* what the caller's doRequest returned
    calls,      \* the methods called on the request object, in order
    configs,    \* the Configs the client was given, in order
    leaked      \* the open handles the request object no longer refers to

vars == <<client, cancelled, pc, kind, keys, explicit, next, ipc, sem, wg,
          data, errs, started, sent, ret, dest, errors, files, drawn,
          request, built, response, result, calls, configs, leaked>>

\* The state of a single-request operation, which the others leave alone.
reqVars == <<request, built, response, result>>

logVars == <<calls, configs, leaked>>

\* The state of a batch save, which a fan-out call leaves alone.
saveVars == <<dest, errors, files, drawn>>

N == Len(keys)

Items == 1..N

FanOutKinds == {"Models", "Files", "FineTunes"}

\* The ID lists of at most n IDs, each ID named once.
RECURSIVE SeqsUpTo(_)
SeqsUpTo(n) ==
    IF n = 0 THEN {<<>>}
    ELSE LET shorter == SeqsUpTo(n - 1)
             longest == {t \in shorter : Len(t) = n - 1}
         IN  shorter \cup UNION {{Append(s, x) : x \in IDs \ {s[j] : j \in DOMAIN s}} : s \in longest}

\* The arguments of a call: Models() passes no list; Models(ids...) passes
\* one, which may be empty.
Arguments ==
    {[explicit |-> FALSE, ids |-> <<>>]}
    \cup {[explicit |-> TRUE, ids |-> s] : s \in SeqsUpTo(MaxKeys)}

\* The default timeout of a request, one minute, in seconds.
requestTimeout == 60

\* A *http.Client by its Timeout; NilHTTPClient is the nil pointer.
HTTPClient(timeout) == [isNil |-> FALSE, Timeout |-> timeout]

NilHTTPClient == [isNil |-> TRUE, Timeout |-> 0]

\* The clients New builds: Configure has filled in the context and the HTTP
\* client, and the base URL passes Client.Error.
Clients ==
    [apiKey : {"sk"}, orgID : {""}, apiBaseURL : {apiBaseURL},
     parallelTasks : 1..MaxParallel, context : {"background"},
     httpHeaders : {{}}, httpClient : {HTTPClient(requestTimeout)}]

Init ==
    /\ client \in Clients
    /\ cancelled = FALSE
    /\ pc = "idle"
    /\ kind = "none"
    /\ keys = <<>>
    /\ explicit = FALSE
    /\ next = 1
    /\ ipc = <<>>
    /\ sem = 0
    /\ wg = 0
    /\ data = <<>>
    /\ errs = <<>>
    /\ started = <<>>
    /\ sent = [g \in {0} |-> <<>>]
    /\ ret = [data |-> <<>>, err |-> NoErr]
    /\ dest = ""
    /\ errors = <<>>
    /\ files = {}
    /\ drawn = 0
    /\ request = NoRequest
    /\ built = <<>>
    /\ response = NoTransport
    /\ result = Result(EmptyBytes, NoErr, NilPtr)
    /\ calls = <<>>
    /\ configs = <<>>
    /\ leaked = {}

\* ---------------------------------------------------------------- fan-out

\* The path of the collection endpoint of an operation.
CollectionPath(k) ==
    IF k = "Models" THEN <<"models">>
    ELSE IF k = "Files" THEN <<"files">>
    ELSE <<"fine-tunes">>

\* The path an item's goroutine requests for its ID.
ItemPath(k, id) ==
    IF k = "FineTunes" THEN <<"fine-tunes", id>> ELSE <<"models", id>>

\* len(models) == 0: the call fetches the whole collection.
IsFetchAll_nilOnly(models) == models.ids = <<>> /\ ~models.explicit

IsFetchAll(models) == Len(models.ids) = 0

\* The structs of a decoded collection.
Collection(ids) == [i \in 1..Len(ids) |-> [isNil |-> FALSE, ID |-> ids[i], Data |-> <<>>]]

\* The fetch-all branch: one request to the collection endpoint, its
\* decoded list or its error returned.
FetchAll(k) ==
    LET endpoint == Endpoint(client, CollectionPath(k))
        req == newJSONRequest(client, "GET", endpoint, NoRequest)
    IN  IF req.err # NoErr
        THEN /\ ret' = [data |-> <<>>, err |-> req.err]
             /\ UNCHANGED sent
        ELSE \E t \in Responses(req.url, cancelled) :
                LET r == doRequest(t, NewResp)
                IN  /\ sent' = [sent EXCEPT ![0] = Append(@, req.url)]
                    /\ ret' = IF r.err # NoErr
                              THEN [data |-> <<>>, err |-> r.err]
                              ELSE [data |-> Collection(r.goal.Data), err |-> NoErr]

\* Models(models...), Files(files...), FineTunes(fineTunes...) up to the
\* launch loop: the fetch-all branch, or the slots and the semaphore.
Call(k, models) ==
    /\ pc = "idle"
    /\ kind' = k
    /\ keys' = models.ids
    /\ explicit' = models.explicit
    /\ IF IsFetchAll(models)
       THEN /\ FetchAll(k)
            /\ pc' = "returned"
            /\ UNCHANGED <<ipc, data, errs, started>>
       ELSE /\ data' = [i \in 1..Len(models.ids) |-> NilPtr]
            /\ errs' = [i \in 1..Len(models.ids) |-> NoErr]
            /\ ipc' = [i \in 1..Len(models.ids) |-> "idle"]
            /\ started' = [i \in 1..Len(models.ids) |-> 0]
            /\ sent' = [g \in 0..Len(models.ids) |-> <<>>]
            /\ pc' = "launch"
            /\ UNCHANGED ret
    /\ UNCHANGED <<client, cancelled, next, sem, wg, saveVars, reqVars, logVars>>

\* One turn of the launch loop: wg.Add(1) and the go statement.
Launch ==
    /\ pc = "launch"
    /\ kind \in FanOutKinds
    /\ next <= N
    /\ wg' = wg + 1
    /\ ipc' = [ipc EXCEPT ![next] = "spawned"]
    /\ next' = next + 1
    /\ UNCHANGED <<client, cancelled, pc, kind, keys, explicit, sem, data,
                   errs, started, sent, ret, saveVars, reqVars, logVars>>

\* The launch loop is over: the caller goes to wg.Wait().
LaunchDone ==
    /\ pc = "launch"
    /\ next > N
    /\ pc' = "wait"
    /\ UNCHANGED <<client, cancelled, kind, keys, explicit, next, ipc, sem,
                   wg, data, errs, started, sent, ret, saveVars, reqVars, logVars>>

\* sem <- struct{}{}: blocks while the channel is full.
ItemAcquire_noWait(i) ==
    /\ ipc[i] = "spawned"
    /\ sem' = sem + 1
    /\ ipc' = [ipc EXCEPT ![i] = "acquired"]
    /\ UNCHANGED <<client, cancelled, pc, kind, keys, explicit, next, wg,
                   data, errs, started, sent, ret, saveVars, reqVars, logVars>>

ItemAcquire(i) ==
    /\ ipc[i] = "spawned"
    /\ sem < client.parallelTasks
    /\ sem' = sem + 1
    /\ ipc' = [ipc EXCEPT ![i] = "acquired"]
    /\ UNCHANGED <<client, cancelled, pc, kind, keys, explicit, next, wg,
                   data, errs, started, sent, ret, saveVars, reqVars, logVars>>

\* The operation of item i, its results stored in slot `slot`: the request
\* is built and sent, the response decoded.
ItemRunInto(i, slot) ==
    /\ kind \in FanOutKinds
    /\ ipc[i] = "acquired"
    /\ started' = [started EXCEPT ![i] = @ + 1]
    /\ LET endpoint == Endpoint(client, ItemPath(kind, keys[i]))
           req == newJSONRequest(client, "GET", endpoint, NoRequest)
       IN  IF req.err # NoErr
           THEN /\ data' = [data EXCEPT ![slot] = NewResp]
                /\ errs' = [errs EXCEPT ![slot] = req.err]
                /\ UNCHANGED sent
           ELSE \E t \in Responses(req.url, cancelled) :
                   LET r == doRequest(t, NewResp)
                   IN  /\ sent' = [sent EXCEPT ![i] = Append(@, req.url)]
                       /\ data' = [data EXCEPT ![slot] = r.goal]
                       /\ errs' = [errs EXCEPT ![slot] = r.err]
    /\ ipc' = [ipc EXCEPT ![i] = "stored"]
    /\ UNCHANGED <<client, cancelled, pc, kind, keys, explicit, next, sem,
                   wg, ret, saveVars, reqVars, logVars>>

\* The first slot no item has stored into yet.
FreeSlot == CHOOSE s \in Items :
               /\ data[s].isNil
               /\ \A q \in Items : data[q].isNil => s <= q

ItemRun_byCompletion(i) == ItemRunInto(i, FreeSlot)

\* An item that finds the context cancelled gives up before its operation.
ItemRun_skipCancelled(i) ==
    IF cancelled
    THEN /\ kind \in FanOutKinds
         /\ ipc[i] = "acquired"
         /\ errs' = [errs EXCEPT ![i] = LibErr("context canceled")]
         /\ ipc' = [ipc EXCEPT ![i] = "stored"]
         /\ UNCHANGED <<client, cancelled, pc, kind, keys, explicit, next,
                        sem, wg, data, started, sent, ret, saveVars, reqVars, logVars>>
    ELSE ItemRunInto(i, i)

\* data[i], errs[i] = resp, err
ItemRun(i) == ItemRunInto(i, i)

\* The deferred function, first half: <-sem.
ItemRelease_onSuccess(i) ==
    /\ ipc[i] = "stored"
    /\ sem' = IF kind \in FanOutKinds /\ errs[i] # NoErr THEN sem ELSE sem - 1
    /\ ipc' = [ipc EXCEPT ![i] = "released"]
    /\ UNCHANGED <<client, cancelled, pc, kind, keys, explicit, next, wg,
                   data, errs, started, sent, ret, saveVars, reqVars, logVars>>

ItemRelease(i) ==
    /\ ipc[i] = "stored"
    /\ sem' = sem - 1
    /\ ipc' = [ipc EXCEPT ![i] = "released"]
    /\ UNCHANGED <<client, cancelled, pc, kind, keys, explicit, next, wg,
                   data, errs, started, sent, ret, saveVars, reqVars, logVars>>

\* The deferred function, second half: wg.Done().
ItemDone(i) ==
    /\ ipc[i] = "released"
    /\ wg' = wg - 1
    /\ ipc' = [ipc EXCEPT ![i] = "done"]
    /\ UNCHANGED <<client, cancelled, pc, kind, keys, explicit, next, sem,
                   data, errs, started, sent, ret, saveVars, reqVars, logVars>>

\* for _, err := range errs { if err != nil { return ModelsData{}, err } }
\* return data, nil
Resolve_lastError(e, d) ==
    IF \E i \in DOMAIN e : e[i] # NoErr
    THEN [data |-> <<>>,
          err |-> e[CHOOSE i \in DOMAIN e :
                      /\ e[i] # NoErr
                      /\ \A j \in DOMAIN e : e[j] # NoErr => j <= i]]
    ELSE [data |-> d, err |-> NoErr]

Resolve_partial(e, d) ==
    IF \E i \in DOMAIN e : e[i] # NoErr
    THEN [data |-> d,
          err |-> e[CHOOSE i \in DOMAIN e :
                      /\ e[i] # NoErr
                      /\ \A j \in DOMAIN e : e[j] # NoErr => i <= j]]
    ELSE [data |-> d, err |-> NoErr]

Resolve(e, d) ==
    IF \E i \in DOMAIN e : e[i] # NoErr
    THEN [data |-> <<>>,
          err |-> e[CHOOSE i \in DOMAIN e :
                      /\ e[i] # NoErr
                      /\ \A j \in DOMAIN e : e[j] # NoErr => i <= j]]
    ELSE [data |-> d, err |-> NoErr]

\* wg.Wait() has returned: the counter is zero.
Joined_early == wg = 0 \/ \E i \in DOMAIN errs : errs[i] # NoErr

Joined == wg = 0

\* wg.Wait(), the scan of the error slots and the return.
WaitReturn ==
    /\ pc = "wait"
    /\ kind \in FanOutKinds
    /\ Joined
    /\ ret' = Resolve(errs, data)
    /\ pc' = "returned"
    /\ UNCHANGED <<client, cancelled, kind, keys, explicit, next, ipc, sem,
                   wg, data, errs, started, sent, saveVars, reqVars, logVars>>

\* The caller's context is cancelled, at any time.
CancelContext ==
    /\ ~cancelled
    /\ cancelled' = TRUE
    /\ UNCHANGED <<client, pc, kind, keys, explicit, next, ipc, sem, wg,
                   data, errs, started, sent, ret, saveVars, reqVars, logVars>>

\* -------------------------------------------------------------- batch save

SaveKinds == {"saveByURL", "saveByBase64"}

\* The default number of parallel tasks, runtime.NumCPU() * 2, on one CPU.
parallelTasks == 2

\* g.Value: the first of its arguments that is not the zero value, else zero.
RECURSIVE gValue(_)
gValue(vs) ==
    IF vs = <<>> THEN 0
    ELSE IF Head(vs) # 0 THEN Head(vs)
    ELSE gValue(Tail(vs))

\* The limit of a batch save: the response was given
\* g.Value(c.parallelTasks, parallelTasks) by the client, and Save passes
\* g.Value(r.parallelTasks, parallelTasks).
SaveLimit(c) == gValue(<<gValue(<<c.parallelTasks, parallelTasks>>), parallelTasks>>)

\* The image descriptors of a response: a URL or inline base64 text.
Descriptor(url, b64) == [URL |-> url, Base64 |-> b64]

Descriptors ==
    {Descriptor("http://img/1", ""), Descriptor("", "QUJD"),
     Descriptor("", "eHl6"), Descriptor("", "!!"), Descriptor("", "")}

RECURSIVE DescSeqsUpTo(_)
DescSeqsUpTo(n) ==
    IF n = 0 THEN {<<>>}
    ELSE LET shorter == DescSeqsUpTo(n - 1)
         IN  shorter \cup {Append(s, x) : s \in {t \in shorter : Len(t) = n - 1},
                                          x \in Descriptors}

\* base64.StdEncoding.DecodeString
base64Decode_raw(item) ==
    IF item \in {"QUJD", "eHl6", ""} THEN [err |-> NoErr, bytes |-> item]
    ELSE [err |-> LibErr("base64.DecodeString"), bytes |-> ""]

base64Decode(item) ==
    IF item = "QUJD" THEN [err |-> NoErr, bytes |-> "ABC"]
    ELSE IF item = "eHl6" THEN [err |-> NoErr, bytes |-> "xyz"]
    ELSE IF item = "" THEN [err |-> NoErr, bytes |-> ""]
    ELSE [err |-> LibErr("base64.DecodeString"), bytes |-> ""]

\* The destinations of a save, all absolute: an existing directory, a path
\* with the image extension, a path that does not exist, and an existing
\* regular file without the image extension.
DestPaths == {"/out", "/out/img.png", "/missing", "/out/notes.txt"}

hasPngSuffix(path) == path = "/out/img.png"

\* os.Stat on the destination.
Stat(path) ==
    IF path = "/out" THEN [err |-> NoErr, isDir |-> TRUE]
    ELSE IF path = "/out/notes.txt" THEN [err |-> NoErr, isDir |-> FALSE]
    ELSE [err |-> LibErr("os.Stat"), isDir |-> FALSE]

\* filepath.Dir, the base name without its extension, and filepath.Ext.
Split(path) ==
    IF path = "/out/img.png" THEN [dir |-> "/out", file |-> "img", ext |-> ".png"]
    ELSE IF path = "/out/notes.txt" THEN [dir |-> "/out", file |-> "notes", ext |-> ".txt"]
    ELSE [dir |-> "/", file |-> path, ext |-> ""]

\* A file path toImagePath makes: dir/file+sep+copy+ext, where copy 0 stands
\* for no digits, or dir/<unique>.png for the unique name number rnd.
FilePath(dir, file, sep, copy, rnd, ext) ==
    [dir |-> dir, file |-> file, sep |-> sep, copy |-> copy, rnd |-> rnd,
     ext |-> ext]

NoPath == FilePath("", "", "", 0, 0, "")

\* toImagePath(copy, path) with the default separator; rnd is the number of
\* the name generateUniqueFilename draws if it is called.
toImagePath_numbered(copy, path, rnd) ==
    LET p == Split(path)
    IN  [err |-> NoErr, unique |-> FALSE,
         path |-> FilePath(p.dir, p.file, "_", copy, 0, p.ext)]

toImagePath(copy, path, rnd) ==
    LET named == LET p == Split(path)
                 IN  [err |-> NoErr, unique |-> FALSE,
                      path |-> FilePath(p.dir, p.file, "_", copy, 0, p.ext)]
    IN  IF ~hasPngSuffix(path)
        THEN LET info == Stat(path)
             IN  IF info.err # NoErr
                 THEN [err |-> info.err, unique |-> FALSE, path |-> NoPath]
                 ELSE IF info.isDir
                 THEN [err |-> NoErr, unique |-> TRUE,
                       path |-> FilePath(path, "", "", 0, rnd, ".png")]
                 ELSE named
        ELSE named

\* The bytes a remote image URL serves.
RemoteImage(url) == IF url = "http://img/1" THEN "PNG1" ELSE ""

\* http.Get(item): an error (always, for a URL without a scheme), or a
\* response with its status and body.
GetResponses(item) ==
    {[err |-> LibErr("http.Get"), status |-> 0, body |-> ""]}
    \cup (IF item = "" THEN {}
          ELSE {[err |-> NoErr, status |-> 200, body |-> RemoteImage(item)],
                [err |-> NoErr, status |-> 404, body |-> "Not Found"]})

\* The file at path p holds content afterwards.
WriteTo(fs, p, content) ==
    {f \in fs : f.path # p} \cup {[path |-> p, content |-> content]}

\* Save(path) of an image response with the descriptors descs.
Save(descs, path) ==
    /\ pc = "idle"
    /\ dest' = path
    /\ explicit' = TRUE
    /\ IF Len(descs) = 0 \/ (descs[1].URL = "" /\ descs[1].Base64 = "")
       THEN /\ kind' = "Save"
            /\ keys' = <<>>
            /\ pc' = "returned"
            /\ ret' = [data |-> <<>>, err |-> NoErr]
            /\ UNCHANGED <<ipc, started, sent>>
       ELSE /\ kind' = IF descs[1].URL # "" THEN "saveByURL" ELSE "saveByBase64"
            /\ keys' = IF descs[1].URL # ""
                       THEN [i \in 1..Len(descs) |-> descs[i].URL]
                       ELSE [i \in 1..Len(descs) |-> descs[i].Base64]
            /\ ipc' = [i \in 1..Len(descs) |-> "idle"]
            /\ started' = [i \in 1..Len(descs) |-> 0]
            /\ sent' = [g \in 0..Len(descs) |-> <<>>]
            /\ pc' = "launch"
            /\ UNCHANGED ret
    /\ UNCHANGED <<client, cancelled, next, sem, wg, data, errs, errors,
                   files, drawn, reqVars, logVars>>

\* One turn of the launch loop of a batch save: wg.Add(1), the token
\* acquired by the launching goroutine, and the go statement.
LaunchSave_noWait ==
    /\ pc = "launch"
    /\ kind \in SaveKinds
    /\ next <= N
    /\ wg' = wg + 1
    /\ sem' = sem + 1
    /\ ipc' = [ipc EXCEPT ![next] = "acquired"]
    /\ next' = next + 1
    /\ UNCHANGED <<client, cancelled, pc, kind, keys, explicit, data, errs,
                   started, sent, ret, saveVars, reqVars, logVars>>

LaunchSave ==
    /\ pc = "launch"
    /\ kind \in SaveKinds
    /\ next <= N
    /\ sem < SaveLimit(client)
    /\ wg' = wg + 1
    /\ sem' = sem + 1
    /\ ipc' = [ipc EXCEPT ![next] = "acquired"]
    /\ next' = next + 1
    /\ UNCHANGED <<client, cancelled, pc, kind, keys, explicit, data, errs,
                   started, sent, ret, saveVars, reqVars, logVars>>

\* errMutex.Lock(); errors = append(errors, err); errMutex.Unlock(); return
Fail_unguarded(i, err) ==
    /\ errors' = <<err>>
    /\ ipc' = [ipc EXCEPT ![i] = "stored"]

Fail(i, err) ==
    /\ errors' = Append(errors, err)
    /\ ipc' = [ipc EXCEPT ![i] = "stored"]

\* The goroutine of item i of saveByBase64: decode, name the file, write it.
SaveBase64Item(i) ==
    /\ kind = "saveByBase64"
    /\ ipc[i] = "acquired"
    /\ started' = [started EXCEPT ![i] = @ + 1]
    /\ LET dec == base64Decode(keys[i])
           p == toImagePath(i - 1, dest, drawn + 1)
       IN  IF dec.err # NoErr
           THEN Fail(i, dec.err) /\ UNCHANGED <<files, drawn>>
           ELSE /\ drawn' = IF p.unique THEN drawn + 1 ELSE drawn
                /\ IF p.err # NoErr
                   THEN Fail(i, p.err) /\ UNCHANGED files
                   ELSE \/ /\ files' = WriteTo(files, p.path, dec.bytes)
                           /\ ipc' = [ipc EXCEPT ![i] = "stored"]
                           /\ UNCHANGED errors
                        \/ Fail(i, LibErr("ioutil.WriteFile")) /\ UNCHANGED files
    /\ UNCHANGED <<client, cancelled, pc, kind, keys, explicit, next, sem,
                   wg, data, errs, sent, ret, dest, reqVars, logVars>>

\* The goroutine of item i of saveByURL: name the file, fetch the URL,
\* create the file and copy the response body into it.
SaveURLItem(i) ==
    /\ kind = "saveByURL"
    /\ ipc[i] = "acquired"
    /\ started' = [started EXCEPT ![i] = @ + 1]
    /\ LET p == toImagePath(i - 1, dest, drawn + 1)
       IN  /\ drawn' = IF p.unique THEN drawn + 1 ELSE drawn
           /\ IF p.err # NoErr
              THEN Fail(i, p.err) /\ UNCHANGED <<files, sent>>
              ELSE \E resp \in GetResponses(keys[i]) :
                      /\ sent' = [sent EXCEPT ![i] = Append(@, <<keys[i]>>)]
                      /\ IF resp.err # NoErr
                         THEN Fail(i, resp.err) /\ UNCHANGED files
                         ELSE \/ Fail(i, LibErr("os.Create")) /\ UNCHANGED files
                              \/ /\ files' = WriteTo(files, p.path, "")
                                 /\ Fail(i, LibErr("io.Copy"))
                              \/ /\ files' = WriteTo(files, p.path, resp.body)
                                 /\ ipc' = [ipc EXCEPT ![i] = "stored"]
                                 /\ UNCHANGED errors
    /\ UNCHANGED <<client, cancelled, pc, kind, keys, explicit, next, sem,
                   wg, data, errs, ret, dest, reqVars, logVars>>

\* wg.Wait() of a batch save and its return: the first error of the list.
SaveReturn ==
    /\ pc = "wait"
    /\ kind \in SaveKinds
    /\ Joined
    /\ ret' = [data |-> <<>>,
               err |-> IF Len(errors) > 0 THEN errors[1] ELSE NoErr]
    /\ pc' = "returned"
    /\ UNCHANGED <<client, cancelled, kind, keys, explicit, next, ipc, sem,
                   wg, data, errs, started, sent, saveVars, reqVars, logVars>>

\* ------------------------------------------------ single-request operations

\* The sentinel errors of error.go.
Sentinel(name) == [kind |-> name, code |-> 0, msg |-> ""]

ErrPromptRequired == Sentinel("prompt is required")
ErrMessageRequired == Sentinel("message is required")
ErrInputRequired == Sentinel("input is required")
ErrModelRequired == Sentinel("model is required")
ErrImageRequired == Sentinel("image is required")
ErrInvalidResponseFormat == Sentinel("invalid response format")
ErrInvalidSize == Sentinel("invalid size")
ErrInvalidRole == Sentinel("invalid role")
ErrInstructionRequired == Sentinel("instruction is required")
ErrFileRequired == Sentinel("file is required")
ErrPurposeRequired == Sentinel("purpose is required")

availableRoleList == {"system", "user", "assistant"}

validImageResponseFormats == {"url", "b64_json"}

validImageSizes == {"256x256", "512x512", "1024x1024"}

\* g.In(v, list...)
gIn(v, list) == v \in list

\* A *os.File field: nil, or a handle on the named file, which is open or
\* closed and whose read offset is at the start or at the end of the file.
NilFile == [isNil |-> TRUE, name |-> "", closed |-> FALSE, eof |-> FALSE]

OpenedFile(name) == [isNil |-> FALSE, name |-> name, closed |-> FALSE, eof |-> FALSE]

FileValues == {NilFile, OpenedFile("/in/a.png")}

\* The first message, in order, that the validation rejects, if any.
RECURSIVE MessagesError(_)
MessagesError(messages) ==
    IF messages = <<>> THEN NoErr
    ELSE IF ~gIn(Head(messages).Role, availableRoleList) THEN ErrInvalidRole
    ELSE IF Head(messages).Content = "" THEN ErrPromptRequired
    ELSE MessagesError(Tail(messages))

CompletionRequestError(r) ==
    IF r.Model = "" THEN ErrModelRequired ELSE NoErr

ChatCompletionRequestError(r) ==
    IF r.Model = "" THEN ErrModelRequired
    ELSE IF Len(r.Messages) = 0 THEN ErrMessageRequired
    ELSE MessagesError(r.Messages)

EditRequestError(r) ==
    IF r.Model = "" THEN ErrModelRequired
    ELSE IF r.Instruction = "" THEN ErrInstructionRequired
    ELSE NoErr

ImageGenerationRequestError(r) ==
    IF r.Prompt = "" THEN ErrPromptRequired
    ELSE IF ~gIn(r.ResponseFormat, validImageResponseFormats) THEN ErrInvalidResponseFormat
    ELSE IF ~gIn(r.Size, validImageSizes) THEN ErrInvalidSize
    ELSE NoErr

ImageEditRequestError(r) ==
    IF r.Image.isNil THEN ErrImageRequired
    ELSE IF r.Prompt = "" THEN ErrPromptRequired
    ELSE IF ~gIn(r.ResponseFormat, validImageResponseFormats) THEN ErrInvalidResponseFormat
    ELSE IF ~gIn(r.Size, validImageSizes) THEN ErrInvalidSize
    ELSE NoErr

ImageVariationRequestError(r) ==
    IF r.Image.isNil THEN ErrImageRequired
    ELSE IF ~gIn(r.ResponseFormat, validImageResponseFormats) THEN ErrInvalidResponseFormat
    ELSE IF ~gIn(r.Size, validImageSizes) THEN ErrInvalidSize
    ELSE NoErr

EmbeddingRequestError(r) ==
    IF r.Model = "" THEN ErrModelRequired
    ELSE IF r.Input = "nil" THEN ErrInputRequired
    ELSE NoErr

AudioTranscriptionRequestError(r) ==
    IF r.File.isNil THEN ErrFileRequired
    ELSE IF r.Model = "" THEN ErrModelRequired
    ELSE NoErr

AudioTranslationRequestError(r) ==
    IF r.File.isNil THEN ErrFileRequired
    ELSE IF r.Model = "" THEN ErrModelRequired
    ELSE NoErr

FileUploadRequestError(r) ==
    IF r.File.isNil THEN ErrFileRequired
    ELSE IF r.Purpose = "" THEN ErrPurposeRequired
    ELSE NoErr

ModerationRequestError(r) ==
    IF r.Input = "" THEN ErrInputRequired
    ELSE IF r.Model = "" THEN ErrModelRequired
    ELSE NoErr

\* r.Error(), by the type of the request.
RequestError(r) ==
    CASE r.type = "CompletionRequest" -> CompletionRequestError(r)
      [] r.type = "ChatCompletionRequest" -> ChatCompletionRequestError(r)
      [] r.type = "EditRequest" -> EditRequestError(r)
      [] r.type = "ImageGenerationRequest" -> ImageGenerationRequestError(r)
      [] r.type = "ImageEditRequest" -> ImageEditRequestError(r)
      [] r.type = "ImageVariationRequest" -> ImageVariationRequestError(r)
      [] r.type = "EmbeddingRequest" -> EmbeddingRequestError(r)
      [] r.type = "AudioTranscriptionRequest" -> AudioTranscriptionRequestError(r)
      [] r.type = "AudioTranslationRequest" -> AudioTranslationRequestError(r)
      [] r.type = "FileUploadRequest" -> FileUploadRequestError(r)
      [] r.type = "ModerationRequest" -> ModerationRequestError(r)

\* The values of the fields the callers fill in.
Texts(t) == {"", t}

MessageLists ==
    {<<>>,
     <<[Role |-> "user", Content |-> "hi"]>>,
     <<[Role |-> "robot", Content |-> "hi"]>>,
     <<[Role |-> "user", Content |-> "hi"], [Role |-> "system", Content |-> ""]>>}

\* The request objects an operation is called with.
Requests(o) ==
    CASE o = "Completion" ->
            [type : {"CompletionRequest"}, Model : Texts("m"), Temperature : Floats]
      [] o = "ChatCompletion" ->
            [type : {"ChatCompletionRequest"}, Model : Texts("m"),
             Messages : MessageLists, Temperature : Floats]
      [] o = "Edit" ->
            [type : {"EditRequest"}, Model : Texts("m"),
             Instruction : Texts("fix"), Temperature : Floats]
      [] o = "ImageGeneration" ->
            [type : {"ImageGenerationRequest"}, Prompt : Texts("cat"),
             ResponseFormat : {"url", "jpeg"}, Size : {"256x256", "1x1"}]
      [] o = "ImageEdit" ->
            [type : {"ImageEditRequest"}, Image : FileValues, Mask : {NilFile},
             Prompt : Texts("cat"), N : {0}, ResponseFormat : {"url", "jpeg"},
             Size : {"256x256", "1x1"}, User : {""}]
      [] o = "ImageVariation" ->
            [type : {"ImageVariationRequest"}, Image : FileValues, N : {0},
             ResponseFormat : {"url", "jpeg"}, Size : {"256x256", "1x1"},
             User : {""}]
      [] o = "Embedding" ->
            [type : {"EmbeddingRequest"}, Model : Texts("m"), Input : {"nil", "text"}]
      [] o = "AudioTranscription" ->
            [type : {"AudioTranscriptionRequest"}, File : FileValues,
             Model : Texts("m"), Prompt : {""}, ResponseFormat : {""},
             Temperature : Floats, Language : {""}]
      [] o = "AudioTranslation" ->
            [type : {"AudioTranslationRequest"}, File : FileValues,
             Model : Texts("m"), Prompt : {""}, ResponseFormat : {""},
             Temperature : Floats]
      [] o = "FileUpload" ->
            [type : {"FileUploadRequest"}, File : FileValues, Purpose : Texts("fine-tune")]
      [] o = "Moderation" ->
            [type : {"ModerationRequest"}, Input : Texts("text"), Model : Texts("m")]

RequestOps ==
    {"Completion", "ChatCompletion", "Edit", "ImageGeneration", "ImageEdit",
     "ImageVariation", "Embedding", "AudioTranscription", "AudioTranslation",
     "FileUpload", "Moderation"}

\* The path of the endpoint of an operation.
OpPath(o) ==
    CASE o = "Completion" -> "completions"
      [] o = "ChatCompletion" -> "chat/completions"
      [] o = "Edit" -> "edits"
      [] o = "ImageGeneration" -> "images/generations"
      [] o = "ImageEdit" -> "images/edits"
      [] o = "ImageVariation" -> "images/variations"
      [] o = "Embedding" -> "embeddings"
      [] o = "AudioTranscription" -> "audio/transcriptions"
      [] o = "AudioTranslation" -> "audio/translations"
      [] o = "FileUpload" -> "files"
      [] o = "Moderation" -> "moderations"

\* The operations that send a multipart body.
DataOps ==
    {"ImageEdit", "ImageVariation", "AudioTranscription", "AudioTranslation",
     "FileUpload"}

\* The bodies a server answers an operation with: an error payload, an error
\* payload with a member of an unexpected type, a truncated error payload,
\* and the resource.
OpBodies ==
    {Body(TRUE, FALSE, "not found", "", <<>>),
     Body(TRUE, TRUE, "not found", "", <<>>),
     Body(FALSE, FALSE, "not found", "", <<>>),
     Body(TRUE, FALSE, "", "r1", <<>>)}

\* What the transport can yield for the request of an operation.
OpResponses(ctxCancelled) ==
    IF ctxCancelled
    THEN {Transport("other", 0, EmptyBytes, FALSE)}
    ELSE {Transport("timeout", 0, EmptyBytes, FALSE),
          Transport("other", 0, EmptyBytes, FALSE)}
         \cup {Transport("nil", status, body, readErr) :
                    status \in StatusCodes, body \in OpBodies, readErr \in BOOLEAN}

\* What the transport can yield for a request to the given URL: a request
\* without a scheme and a host is never sent.
SendResponses(url, ctxCancelled) ==
    IF url = <<>> THEN {Transport("other", 0, EmptyBytes, FALSE)}
    ELSE OpResponses(ctxCancelled)

\* An operation on a request object whose validation passed, or was skipped:
\* the request is built by the marshaler of the operation and sent, and the
\* response is decoded.
BuildAndSend(o, r) ==
    LET endpoint == Endpoint(client, <<OpPath(o)>>)
        req == IF o \in DataOps THEN newDataRequest(client, "POST", endpoint, r)
                                ELSE newJSONRequest(client, "POST", endpoint, r)
    IN  /\ built' = Append(built, req)
        /\ IF req.err # NoErr
           THEN /\ ret' = [data |-> <<NewResp>>, err |-> req.err]
                /\ UNCHANGED <<sent, response, result>>
           ELSE \E t \in SendResponses(req.url, cancelled) :
                   LET res == doRequest(t, NewResp)
                   IN  /\ sent' = [sent EXCEPT ![0] = Append(@, req.url)]
                       /\ response' = t
                       /\ result' = res
                       /\ ret' = IF res.err # NoErr
                                 THEN [data |-> <<NewResp>>, err |-> res.err]
                                 ELSE [data |-> <<res.goal>>, err |-> NoErr]

\* r.Error() comes first: its error is returned with the empty response.
Validated_skipped(o, r) == BuildAndSend(o, r)

Validated(o, r) ==
    LET err == RequestError(r)
    IN  IF err # NoErr
        THEN /\ ret' = [data |-> <<NewResp>>, err |-> err]
             /\ UNCHANGED <<built, sent, response, result>>
        ELSE BuildAndSend(o, r)

\* Completion, ChatCompletion, Edit, ImageGeneration, ImageEdit,
\* ImageVariation, Embedding, AudioTranscription, AudioTranslation,
\* FileUpload and Moderation, called with the request r.
Operation(o, r) ==
    /\ pc = "idle"
    /\ kind' = o
    /\ request' = IF o \in DataOps /\ RequestError(r) = NoErr
                  THEN afterDataRequest(r) ELSE r
    /\ Validated(o, r)
    /\ pc' = "returned"
    /\ UNCHANGED <<client, cancelled, keys, explicit, next, ipc, sem, wg,
                   data, errs, started, saveVars, logVars>>

\* FileContent(file): a GET of the content endpoint of the file, sent with
\* a nil goal; the bytes doRequest returns are the content.
FileContent(file) ==
    /\ pc = "idle"
    /\ kind' = "FileContent"
    /\ LET endpoint == Endpoint(client, <<"files", file, "content">>)
           req == newJSONRequest(client, "GET", endpoint, NoRequest)
       IN  /\ built' = Append(built, req)
           /\ IF req.err # NoErr
              THEN /\ ret' = [data |-> <<EmptyBytes>>, err |-> req.err]
                   /\ UNCHANGED <<sent, response, result>>
              ELSE \E t \in SendResponses(req.url, cancelled) :
                      LET res == doRequest(t, NilPtr)
                      IN  /\ sent' = [sent EXCEPT ![0] = Append(@, req.url)]
                          /\ response' = t
                          /\ result' = res
                          /\ ret' = IF res.err # NoErr
                                    THEN [data |-> <<EmptyBytes>>, err |-> res.err]
                                    ELSE [data |-> <<res.body>>, err |-> NoErr]
    /\ pc' = "returned"
    /\ UNCHANGED <<client, cancelled, keys, explicit, next, ipc, sem, wg,
                   data, errs, started, saveVars, request, logVars>>

Next ==
    \/ \E k \in FanOutKinds, models \in Arguments : Call(k, models)
    \/ Launch
    \/ LaunchDone
    \/ \E i \in Items : ItemAcquire(i)
    \/ \E i \in Items : ItemRun(i)
    \/ \E i \in Items : ItemRelease(i)
    \/ \E i \in Items : ItemDone(i)
    \/ WaitReturn
    \/ CancelContext
    \/ \E descs \in DescSeqsUpTo(MaxKeys), path \in DestPaths : Save(descs, path)
    \/ LaunchSave
    \/ \E i \in Items : SaveBase64Item(i)
    \/ \E i \in Items : SaveURLItem(i)
    \/ SaveReturn
    \/ \E file \in IDs : FileContent(file)
    \/ \E o \in RequestOps : \E r \in Requests(o) : Operation(o, r)

Spec == Init /\ [][Next]_vars

\* ------------------------------------------------- life of a request object

\* The files of the local file system that os.Open finds.
LocalFiles == {"/in/a.png", "/in/b.png"}

Paths == LocalFiles \cup {"/missing"}

\* os.Open(path)
osOpen(path) ==
    IF path \in LocalFiles THEN [err |-> NoErr, file |-> OpenedFile(path)]
    ELSE [err |-> LibErr("os.Open"), file |-> NilFile]

\* file.Close(): closing a closed handle returns an error that every caller
\* drops.
fileClose_toggle(file) == [file EXCEPT !.closed = ~@]

fileClose(file) == [file EXCEPT !.closed = TRUE]

\* ImageEditRequest.CloseImageFile and ImageVariationRequest.CloseImageFile
CloseImageFile(r) ==
    IF ~r.Image.isNil THEN [r EXCEPT !.Image = fileClose(@)] ELSE r

\* ImageEditRequest.CloseMaskFile tests and closes r.Image.
CloseMaskFile(r) ==
    IF ~r.Image.isNil THEN [r EXCEPT !.Image = fileClose(@)] ELSE r

\* AudioTranscriptionRequest.CloseAudioFile and
\* AudioTranslationRequest.CloseAudioFile
CloseAudioFile(r) ==
    IF ~r.File.isNil THEN [r EXCEPT !.File = fileClose(@)] ELSE r

\* FileUploadRequest.CloseFile
CloseFile(r) ==
    IF ~r.File.isNil THEN [r EXCEPT !.File = fileClose(@)] ELSE r

\* The methods of a request type that open and that close a file.
OpenMethods(t) ==
    CASE t = "ImageEditRequest" -> {"OpenImageFile", "OpenMaskFile"}
      [] t = "ImageVariationRequest" -> {"OpenImageFile"}
      [] t \in {"AudioTranscriptionRequest", "AudioTranslationRequest"} -> {"OpenAudioFile"}
      [] t = "FileUploadRequest" -> {"OpenFile"}
      [] OTHER -> {}

CloseMethods(t) ==
    CASE t = "ImageEditRequest" -> {"CloseImageFile", "CloseMaskFile"}
      [] t = "ImageVariationRequest" -> {"CloseImageFile"}
      [] t \in {"AudioTranscriptionRequest", "AudioTranslationRequest"} -> {"CloseAudioFile"}
      [] t = "FileUploadRequest" -> {"CloseFile"}
      [] OTHER -> {}

CloseMethod(m, r) ==
    CASE m = "CloseImageFile" -> CloseImageFile(r)
      [] m = "CloseMaskFile" -> CloseMaskFile(r)
      [] m = "CloseAudioFile" -> CloseAudioFile(r)
      [] m = "CloseFile" -> CloseFile(r)

\* The rest of an Open method once the handle of before is dealt with: the
\* file is opened and assigned to the field, or the error is returned.
openInto(r, field, path) ==
    LET o == osOpen(path)
    IN  IF o.err # NoErr THEN [r |-> r, err |-> o.err, dropped |-> NilFile]
        ELSE [r |-> [r EXCEPT ![field] = o.file], err |-> NoErr,
              dropped |-> r[field]]

\* OpenImageFile of an ImageEditRequest closes the image of before;
\* OpenImageFile of an ImageVariationRequest does not.
OpenImageFile(r, path) ==
    openInto(IF r.type = "ImageEditRequest" THEN CloseImageFile(r) ELSE r,
             "Image", path)

OpenMaskFile(r, path) == openInto(CloseMaskFile(r), "Mask", path)

OpenAudioFile(r, path) == openInto(CloseAudioFile(r), "File", path)

OpenFile(r, path) == openInto(CloseFile(r), "File", path)

OpenMethod(m, r, path) ==
    CASE m = "OpenImageFile" -> OpenImageFile(r, path)
      [] m = "OpenMaskFile" -> OpenMaskFile(r, path)
      [] m = "OpenAudioFile" -> OpenAudioFile(r, path)
      [] m = "OpenFile" -> OpenFile(r, path)

\* Flush of every request type.
Flush(r) ==
    CASE r.type = "ImageEditRequest" -> CloseMaskFile(CloseImageFile(r))
      [] r.type = "ImageVariationRequest" -> CloseImageFile(r)
      [] r.type \in {"AudioTranscriptionRequest", "AudioTranslationRequest"} ->
            CloseAudioFile(r)
      [] r.type = "FileUploadRequest" -> CloseFile(r)
      [] OTHER -> r

\* The operation a request type is the argument of.
OpOf(t) ==
    CASE t = "CompletionRequest" -> "Completion"
      [] t = "ImageEditRequest" -> "ImageEdit"
      [] t = "ImageVariationRequest" -> "ImageVariation"
      [] t = "AudioTranscriptionRequest" -> "AudioTranscription"
      [] t = "AudioTranslationRequest" -> "AudioTranslation"
      [] t = "FileUploadRequest" -> "FileUpload"

\* The number of calls made on a request object.
MaxCalls == 3

\* A call in the log of calls: the method or operation, and the path given
\* to an Open method.
CallOf(name, path) == [name |-> name, path |-> path]

\* The clients the request objects are sent with: with and without an
\* organization, with and without additional headers.
ExtraHeaders == {<<"X-Trace", <<"1">> >>}

RequestClients ==
    [apiKey : {"sk"}, orgID : {"", "org"}, apiBaseURL : {apiBaseURL},
     parallelTasks : {parallelTasks}, context : {"background"},
     httpHeaders : {{}, ExtraHeaders}, httpClient : {HTTPClient(requestTimeout)}]

\* The request objects as their callers fill them in before a file is
\* opened.
NewRequests ==
    [type : {"CompletionRequest"}, Model : {"m"}, Temperature : {"0.5"}]
    \cup [type : {"ImageEditRequest"}, Image : {NilFile}, Mask : {NilFile},
          Prompt : {"cat"}, N : {0, 2}, ResponseFormat : {"url"},
          Size : {"256x256"}, User : {""}]
    \cup [type : {"ImageVariationRequest"}, Image : {NilFile}, N : {0},
          ResponseFormat : {"url"}, Size : {"256x256"}, User : {""}]
    \cup [type : {"AudioTranscriptionRequest"}, File : {NilFile}, Model : {"m"},
          Prompt : {""}, ResponseFormat : {""}, Temperature : Floats,
          Language : {""}]
    \cup [type : {"AudioTranslationRequest"}, File : {NilFile}, Model : {"m"},
          Prompt : {""}, ResponseFormat : {""}, Temperature : {"0.5"}]
    \cup [type : {"FileUploadRequest"}, File : {NilFile}, Purpose : {"fine-tune"}]

InitRequest ==
    /\ client \in RequestClients
    /\ cancelled = FALSE
    /\ pc = "object"
    /\ kind = "none"
    /\ keys = <<>>
    /\ explicit = FALSE
    /\ next = 1
    /\ ipc = <<>>
    /\ sem = 0
    /\ wg = 0
    /\ data = <<>>
    /\ errs = <<>>
    /\ started = <<>>
    /\ sent = [g \in {0} |-> <<>>]
    /\ ret = [data |-> <<>>, err |-> NoErr]
    /\ dest = ""
    /\ errors = <<>>
    /\ files = {}
    /\ drawn = 0
    /\ request \in NewRequests
    /\ built = <<>>
    /\ response = NoTransport
    /\ result = Result(EmptyBytes, NoErr, NilPtr)
    /\ calls = <<>>
    /\ configs = <<>>
    /\ leaked = {}

\* What a call on the request object leaves alone.
objectFrame ==
    <<client, cancelled, pc, keys, explicit, next, ipc, sem, wg, data, errs,
      started, saveVars, configs>>

\* r.Open...(path)
CallOpen(m, path) ==
    /\ pc = "object"
    /\ Len(calls) < MaxCalls
    /\ m \in OpenMethods(request.type)
    /\ LET o == OpenMethod(m, request, path)
       IN  /\ request' = o.r
           /\ ret' = [data |-> <<>>, err |-> o.err]
           /\ leaked' = IF ~o.dropped.isNil /\ ~o.dropped.closed
                         THEN leaked \cup {o.dropped} ELSE leaked
    /\ kind' = m
    /\ calls' = Append(calls, CallOf(m, path))
    /\ UNCHANGED <<objectFrame, sent, built, response, result>>

\* r.Close...()
CallClose(m) ==
    /\ pc = "object"
    /\ Len(calls) < MaxCalls
    /\ m \in CloseMethods(request.type)
    /\ request' = CloseMethod(m, request)
    /\ ret' = [data |-> <<>>, err |-> NoErr]
    /\ kind' = m
    /\ calls' = Append(calls, CallOf(m, ""))
    /\ UNCHANGED <<objectFrame, sent, built, response, result, leaked>>

\* r.Flush()
CallFlush ==
    /\ pc = "object"
    /\ Len(calls) < MaxCalls
    /\ request' = Flush(request)
    /\ ret' = [data |-> <<>>, err |-> NoErr]
    /\ kind' = "Flush"
    /\ calls' = Append(calls, CallOf("Flush", ""))
    /\ UNCHANGED <<objectFrame, sent, built, response, result, leaked>>

\* The operation of the request type, called with the request object as it
\* is.
CallOperation ==
    /\ pc = "object"
    /\ Len(calls) < MaxCalls
    /\ LET o == OpOf(request.type)
       IN  /\ kind' = o
           /\ request' = IF o \in DataOps /\ RequestError(request) = NoErr
                         THEN afterDataRequest(request) ELSE request
           /\ Validated(o, request)
           /\ calls' = Append(calls, CallOf(o, ""))
    /\ UNCHANGED <<objectFrame, leaked>>

NextRequest ==
    \/ \E m \in {"OpenImageFile", "OpenMaskFile", "OpenAudioFile", "OpenFile"} :
            \E path \in Paths : CallOpen(m, path)
    \/ \E m \in {"CloseImageFile", "CloseMaskFile", "CloseAudioFile", "CloseFile"} :
            CallClose(m)
    \/ CallFlush
    \/ CallOperation

SpecRequest == InitRequest /\ [][NextRequest]_vars

\* ------------------------------------------------- configuring the client

\* The number of Config values a client is configured with, by New and by
\* Configure.
MaxConfigs == 2

\* g.Value of a type whose zero value is zero: the first argument that is
\* not zero, else zero.
RECURSIVE gValueOf(_, _)
gValueOf(zero, vs) ==
    IF vs = <<>> THEN zero
    ELSE IF Head(vs) # zero THEN Head(vs)
    ELSE gValueOf(zero, Tail(vs))

\* Client{}
ZeroClient ==
    [apiKey |-> "", orgID |-> "", apiBaseURL |-> "", parallelTasks |-> 0,
     context |-> "nil", httpHeaders |-> {}, httpClient |-> NilHTTPClient]

\* Config{}
ZeroConfig ==
    [APIKey |-> "", OrgID |-> "", APIBaseURL |-> "", ParallelTasks |-> 0,
     RequestTimeout |-> 0, Context |-> "nil", HTTPHeaders |-> {},
     HTTPClient |-> NilHTTPClient]

\* The Config values the callers pass: no field set, one field set, and a
\* timeout together with a client of their own.
Configs ==
    {ZeroConfig}
    \cup {[ZeroConfig EXCEPT !.APIKey = k] : k \in {"sk", "sk2"}}
    \cup {[ZeroConfig EXCEPT !.OrgID = "org"]}
    \cup {[ZeroConfig EXCEPT !.APIBaseURL = u] : u \in {"https://proxy", MalformedBaseURL}}
    \cup {[ZeroConfig EXCEPT !.ParallelTasks = n] : n \in {3, -1}}
    \cup {[ZeroConfig EXCEPT !.RequestTimeout = 30]}
    \cup {[ZeroConfig EXCEPT !.Context = "ctx"]}
    \cup {[ZeroConfig EXCEPT !.HTTPHeaders = ExtraHeaders]}
    \cup {[ZeroConfig EXCEPT !.HTTPClient = HTTPClient(5)]}
    \cup {[ZeroConfig EXCEPT !.HTTPClient = HTTPClient(5), !.RequestTimeout = 30]}

\* The non-empty lists of at most n Config values.
ConfigSeqsUpTo(n) == UNION {[1..m -> Configs] : m \in 1..n}

\* Client.Configure with the value that was configured first kept.
Configure_keepFirst(c, config) ==
    [apiKey |-> gValueOf("", <<c.apiKey, config.APIKey>>),
     orgID |-> gValueOf("", <<c.orgID, config.OrgID>>),
     apiBaseURL |-> gValueOf("", <<c.apiBaseURL, config.APIBaseURL, apiBaseURL>>),
     parallelTasks |-> gValueOf(0, <<c.parallelTasks, config.ParallelTasks, parallelTasks>>),
     context |-> gValueOf("nil", <<c.context, config.Context, "background">>),
     httpHeaders |-> gValueOf({}, <<c.httpHeaders, config.HTTPHeaders>>),
     httpClient |-> gValueOf(NilHTTPClient,
                        <<c.httpClient, config.HTTPClient, HTTPClient(requestTimeout)>>)]

\* Client.Configure: every field is the value of the Config, else the value
\* the client has, else the default of the field if it has one.
Configure(c, config) ==
    [apiKey |-> gValueOf("", <<config.APIKey, c.apiKey>>),
     orgID |-> gValueOf("", <<config.OrgID, c.orgID>>),
     apiBaseURL |-> gValueOf("", <<config.APIBaseURL, c.apiBaseURL, apiBaseURL>>),
     parallelTasks |-> gValueOf(0, <<config.ParallelTasks, c.parallelTasks, parallelTasks>>),
     context |-> gValueOf("nil", <<config.Context, c.context, "background">>),
     httpHeaders |-> gValueOf({}, <<config.HTTPHeaders, c.httpHeaders>>),
     httpClient |-> gValueOf(NilHTTPClient,
                        <<config.HTTPClient, c.httpClient, HTTPClient(requestTimeout)>>)]

\* newWithConfigParams: the Config values are applied in turn.
RECURSIVE configureAll(_, _)
configureAll(cli, opts) ==
    IF opts = <<>> THEN cli
    ELSE configureAll(Configure(cli, Head(opts)), Tail(opts))

newWithConfigParams(opts) == configureAll(ZeroClient, opts)

\* The string arguments of New: the key, the organization, the base URL.
StringParams ==
    {<<"sk">>, <<"sk", "org">>, <<"sk", "", "https://proxy">>,
     <<"sk", "org", MalformedBaseURL>>}

\* The Config newWithStringParams makes of its arguments: a base URL that
\* does not parse is left empty.
stringConfig(opts) ==
    [ZeroConfig EXCEPT
        !.APIKey = opts[1],
        !.OrgID = IF Len(opts) > 1 THEN opts[2] ELSE "",
        !.APIBaseURL = IF Len(opts) > 2 /\ urlBuild(opts[3], <<>>).err = NoErr
                       THEN opts[3] ELSE ""]

InitConfig ==
    /\ client = ZeroClient
    /\ cancelled = FALSE
    /\ pc = "new"
    /\ kind = "none"
    /\ keys = <<>>
    /\ explicit = FALSE
    /\ next = 1
    /\ ipc = <<>>
    /\ sem = 0
    /\ wg = 0
    /\ data = <<>>
    /\ errs = <<>>
    /\ started = <<>>
    /\ sent = [g \in {0} |-> <<>>]
    /\ ret = [data |-> <<>>, err |-> NoErr]
    /\ dest = ""
    /\ errors = <<>>
    /\ files = {}
    /\ drawn = 0
    /\ request = NoRequest
    /\ built = <<>>
    /\ response = NoTransport
    /\ result = Result(EmptyBytes, NoErr, NilPtr)
    /\ calls = <<>>
    /\ configs = <<>>
    /\ leaked = {}

\* What the construction and the configuration of a client leave alone.
configFrame ==
    <<cancelled, kind, keys, explicit, next, ipc, sem, wg, data, errs,
      started, sent, ret, saveVars, reqVars, calls, leaked>>

\* New(v, opts...) with Config values.
NewWithConfigs(opts) ==
    /\ pc = "new"
    /\ client' = newWithConfigParams(opts)
    /\ configs' = opts
    /\ pc' = "idle"
    /\ UNCHANGED configFrame

\* New(v, opts...) with strings.
NewWithStrings(opts) ==
    /\ pc = "new"
    /\ client' = newWithConfigParams(<<stringConfig(opts)>>)
    /\ configs' = <<stringConfig(opts)>>
    /\ pc' = "idle"
    /\ UNCHANGED configFrame

\* client.Configure(config)
CallConfigure(config) ==
    /\ pc = "idle"
    /\ Len(configs) < MaxConfigs
    /\ client' = Configure(client, config)
    /\ configs' = Append(configs, config)
    /\ UNCHANGED <<pc, configFrame>>

NextConfig ==
    \/ \E opts \in ConfigSeqsUpTo(MaxConfigs) : NewWithConfigs(opts)
    \/ \E opts \in StringParams : NewWithStrings(opts)
    \/ \E config \in Configs : CallConfigure(config)
    \/ \E file \in IDs : FileContent(file)

SpecConfig == InitConfig /\ [][NextConfig]_vars

\* --------------------------------------- fan-out and batch save, scheduled

\* The fan-out calls and the batch saves alone, the context left as it is.
NextBatch ==
    \/ \E k \in FanOutKinds, models \in Arguments : Call(k, models)
    \/ Launch
    \/ LaunchDone
    \/ \E i \in Items : ItemAcquire(i)
    \/ \E i \in Items : ItemRun(i)
    \/ \E i \in Items : ItemRelease(i)
    \/ \E i \in Items : ItemDone(i)
    \/ WaitReturn
    \/ \E descs \in DescSeqsUpTo(MaxKeys), path \in DestPaths : Save(descs, path)
    \/ LaunchSave
    \/ \E i \in Items : SaveBase64Item(i)
    \/ \E i \in Items : SaveURLItem(i)
    \/ SaveReturn

\* The scheduler runs every goroutine that can take a step, the caller's
\* and every item's, and the operation of an item terminates.
Scheduled ==
    /\ WF_vars(Launch)
    /\ WF_vars(LaunchDone)
    /\ WF_vars(LaunchSave)
    /\ WF_vars(WaitReturn)
    /\ WF_vars(SaveReturn)
    /\ \A i \in 1..MaxKeys :
          /\ WF_vars(i \in Items /\ ItemAcquire(i))
          /\ WF_vars(i \in Items /\ ItemRun(i))
          /\ WF_vars(i \in Items /\ SaveBase64Item(i))
          /\ WF_vars(i \in Items /\ SaveURLItem(i))
          /\ WF_vars(i \in Items /\ ItemRelease(i))
          /\ WF_vars(i \in Items /\ ItemDone(i))

SpecBatch == Init /\ [][NextBatch]_vars /\ Scheduled

\* ------------------------------------------------------------------ claims

Returned(kinds) == pc = "returned" /\ kind \in kinds

\* The items that hold a token: their operation is running.
Running == {i \in Items : ipc[i] \in {"acquired", "stored"}}

\* The items whose operation failed.
Failing == {i \in Items : errs[i] # NoErr}

\* C1: a successful fan-out call with N >= 1 IDs returns N elements, and
\* element i is the resource the server holds under input ID i, whatever
\* order the items completed in.
C1_ResultsInInputOrder ==
    (Returned(FanOutKinds) /\ N >= 1 /\ ret.err = NoErr)
        => /\ Len(ret.data) = N
           /\ \A i \in Items :
                 /\ ~ret.data[i].isNil
                 /\ ret.data[i].ID = keys[i]
                 /\ ret.data[i].Data = IF keys[i] = "" THEN AllIDs ELSE <<>>

C1_Witness ==
    /\ Returned(FanOutKinds)
    /\ client.parallelTasks = 2
    /\ keys = <<"b", "a">>
    /\ ret.err = NoErr
    /\ ret.data[1].ID = "b"
    /\ ret.data[2].ID = "a"

\* C2: when items of a fan-out call fail, the call returns the error of the
\* failing item with the lowest input index.
C2_LowestIndexError ==
    (Returned(FanOutKinds) /\ Failing # {})
        => \E i \in Failing : /\ \A j \in Failing : i <= j
                              /\ ret.err = errs[i]

C2_Witness ==
    /\ Returned(FanOutKinds)
    /\ N = 2
    /\ errs[1] = ErrRequestTimedOut
    /\ errs[2] = StatusErr(404, "not found")
    /\ ret.err = ErrRequestTimedOut

\* C3: in a fan-out call and in a batch save, the number of items whose
\* operation is running never exceeds the limit.
C3_AtMostLimitRunning ==
    /\ kind \in FanOutKinds => Cardinality(Running) <= client.parallelTasks
    /\ kind \in SaveKinds => Cardinality(Running) <= SaveLimit(client)

C3_Witness ==
    /\ kind \in FanOutKinds
    /\ client.parallelTasks = 1
    /\ Cardinality(Running) = 1
    /\ \E i \in Items : ipc[i] = "spawned"

\* C4: a fan-out call returns the full list of N results if and only if all
\* N items succeeded; if an item failed it returns one error and an empty
\* list.
C4_AllOrNothing ==
    (Returned(FanOutKinds) /\ N >= 1)
        => /\ (ret.err = NoErr) <=> (Failing = {})
           /\ ret.err = NoErr =>
                /\ Len(ret.data) = N
                /\ \A i \in Items : ~ret.data[i].isNil
           /\ ret.err # NoErr => ret.data = <<>>

C4_Witness ==
    /\ Returned(FanOutKinds)
    /\ N = 2
    /\ errs[1] = NoErr
    /\ data[1].ID = keys[1]
    /\ errs[2] # NoErr
    /\ ret.err = errs[2]
    /\ ret.data = <<>>

\* C5: a fan-out call has not returned while one of its items is unfinished.
C5_ReturnsAfterAllItems ==
    (Returned(FanOutKinds) /\ N >= 1) => \A i \in Items : ipc[i] = "done"

\* The caller is at wg.Wait(), one item has recorded its failure and another
\* has not started its operation.
C5_Witness ==
    /\ kind \in FanOutKinds
    /\ pc = "wait"
    /\ \E i \in Items : ipc[i] = "done" /\ errs[i] # NoErr
    /\ \E j \in Items : ipc[j] = "spawned"

\* C6: the operation of an item is started at most once, it has been started
\* once when the item has stored its result, and every item has been
\* started once when the call returns: none is retried and none is skipped.
C6_StartedExactlyOnce ==
    kind \in FanOutKinds =>
        \A i \in Items :
            /\ started[i] <= 1
            /\ ipc[i] \in {"stored", "released", "done"} => started[i] = 1
            /\ pc = "returned" => started[i] = 1

\* The context was cancelled and the first item failed, and the second item
\* was started all the same.
C6_Witness ==
    /\ Returned(FanOutKinds)
    /\ cancelled
    /\ N = 2
    /\ errs[1] # NoErr
    /\ started[1] = 1
    /\ started[2] = 1

\* C7: called with no IDs, Models, Files and FineTunes send one request, to
\* the collection endpoint, and start no item; called with N >= 1 IDs they
\* send one request per ID and none to a collection endpoint.
C7_FetchAllOrPerID ==
    Returned(FanOutKinds) =>
        IF N = 0
        THEN /\ sent[0] = <<Endpoint(client, CollectionPath(kind))>>
             /\ DOMAIN sent = {0}
             /\ started = <<>>
        ELSE /\ sent[0] = <<>>
             /\ \A i \in Items :
                   /\ Len(sent[i]) = 1
                   /\ \A k \in FanOutKinds :
                         sent[i][1] # Endpoint(client, CollectionPath(k))

\* C8 as stated: a call given an explicit empty ID list sends no request to
\* the collection endpoint.
C8_EmptyListIsNotFetchAll ==
    (Returned(FanOutKinds) /\ explicit /\ keys = <<>>)
        => Endpoint(client, CollectionPath(kind)) \notin {sent[0][n] : n \in DOMAIN sent[0]}

\* C8 as amended: a call given an explicit empty ID list is a fetch-all: it
\* sends one request, to the collection endpoint, and when that succeeds it
\* returns the whole collection.
C8_EmptyListFetchesAll ==
    (Returned(FanOutKinds) /\ explicit /\ keys = <<>>)
        => /\ sent[0] = <<Endpoint(client, CollectionPath(kind))>>
           /\ ret.err = NoErr => ret.data = Collection(AllIDs)

C8_Witness ==
    /\ Returned(FanOutKinds)
    /\ explicit
    /\ keys = <<>>
    /\ ret.err = NoErr
    /\ Len(ret.data) = Len(AllIDs)

\* C9: when the validation of the request reports an error, the operation
\* returns that error, and no outbound request has been built or sent.
C9_InvalidRequestNotSent ==
    (Returned(RequestOps) /\ RequestError(request) # NoErr)
        => /\ ret.err = RequestError(request)
           /\ built = <<>>
           /\ sent[0] = <<>>
           /\ response = NoTransport

C9_Witness ==
    /\ Returned({"FileUpload"})
    /\ request.File.isNil
    /\ ret.err = ErrFileRequired
    /\ built = <<>>

\* The status codes of the range [200, 400).
InSuccessRange(status) == 200 <= status /\ status < 400

\* A response reached doRequest.
Answered == Returned(RequestOps) /\ response.doErr = "nil"

\* C10 as stated: a response is a success exactly when its status is in
\* [200, 400), and for every other status the error holds the status code
\* and the message of the payload, empty when the payload is no valid JSON.
C10_StatusErrorAlways ==
    Answered =>
        /\ InSuccessRange(response.status) => ret.err.kind # "status"
        /\ ~InSuccessRange(response.status) =>
              /\ ret.err.kind = "status"
              /\ ret.err.code = response.status
              /\ ret.err.msg = IF response.body.syntax THEN response.body.message
                                                       ELSE ""

\* C10 as amended: a response is handled as a failure exactly when its
\* status is outside [200, 400); then, when the body can be read, the error
\* holds the status code and the message of the payload (empty when the
\* payload is no valid JSON), and when reading the body fails the error is
\* the read failure, without the status code.
C10_StatusErrorWhenBodyRead ==
    Answered =>
        /\ (ret.err.kind \in {"status", "failed to read error body"})
              <=> ~InSuccessRange(response.status)
        /\ (~InSuccessRange(response.status) /\ ~response.readErr) =>
              /\ ret.err.kind = "status"
              /\ ret.err.code = response.status
              /\ ret.err.msg = IF response.body.syntax THEN response.body.message
                                                       ELSE ""
        /\ (~InSuccessRange(response.status) /\ response.readErr) =>
              ret.err = ReadErrorBodyErr

C10_Witness ==
    /\ Answered
    /\ response.status = 404
    /\ ~response.readErr
    /\ response.body.message = "not found"
    /\ ret.err = StatusErr(404, "not found")


\* A response with a success status reached the doRequest of an operation
\* (whose sink is a response struct) or of FileContent (whose sink is nil).
Succeeded ==
    /\ Returned(RequestOps \cup {"FileContent"})
    /\ response.doErr = "nil"
    /\ InSuccessRange(response.status)

\* C11: on a success response whose body is read, doRequest with a non-nil
\* sink decodes the body into it and fails when the body is malformed JSON;
\* with a nil sink it decodes nothing and does not fail; and whenever it
\* succeeds it returns the bytes of the body as they were received.
C11_DecodeIntoSink ==
    (Succeeded /\ ~response.readErr) =>
        /\ kind \in RequestOps =>
              IF response.body.syntax /\ ~response.body.mismatch
              THEN /\ result.err = NoErr
                   /\ result.goal = [isNil |-> FALSE, ID |-> response.body.id,
                                     Data |-> response.body.data]
              ELSE /\ result.err = LibErr("json.Unmarshal")
                   /\ ret.err = LibErr("json.Unmarshal")
        /\ kind = "FileContent" =>
              /\ result.err = NoErr
              /\ result.goal = NilPtr
              /\ ret.data = <<response.body>>
        /\ result.err = NoErr => result.body = response.body

\* FileContent received a body that is no JSON and returned it as it is.
C11_Witness ==
    /\ Succeeded
    /\ kind = "FileContent"
    /\ ~response.readErr
    /\ ~response.body.syntax
    /\ ret.err = NoErr
    /\ ret.data = <<response.body>>


\* The outbound requests the marshalers have built without an error.
Built == {built[i] : i \in {j \in DOMAIN built : built[j].err = NoErr}}

\* The values a request carries under a header name.
HeaderValues(req, name) == {h[2] : h \in {x \in req.header : x[1] = name}}

\* C12: every outbound request built by the JSON marshaler or by the
\* multipart marshaler carries the header Authorization with the value
\* "Bearer <API key of the client>", and carries the header
\* OpenAI-Organization, with the organization ID of the client as its value,
\* if and only if that ID is not empty.
C12_AuthorizationAndOrganization ==
    \A req \in Built :
        /\ req.mode \in {"json", "multipart"}
        /\ HeaderValues(req, "Authorization") = {<<"Bearer", client.apiKey>>}
        /\ HeaderValues(req, "OpenAI-Organization") =
                IF client.orgID # "" THEN {<<client.orgID>>} ELSE {}

\* A multipart request built by a client with an organization carries it.
C12_Witness ==
    \E req \in Built :
        /\ req.mode = "multipart"
        /\ client.orgID = "org"
        /\ <<"OpenAI-Organization", <<"org">> >> \in req.header


\* C13: every outbound request the client builds, JSON or multipart,
\* includes the additional HTTP headers configured on the client.
C13_AdditionalHeadersIncluded ==
    \A req \in Built : client.httpHeaders \subseteq req.header


\* The last call on the request object was its operation, the request passed
\* the validation and the marshaler built the outbound request.
Marshaled ==
    /\ calls # <<>>
    /\ calls[Len(calls)].name \in DataOps
    /\ RequestError(request) = NoErr
    /\ built # <<>>
    /\ built[Len(built)].err = NoErr

\* The JSON text of the values the fields that are no strings take.
JSONText(type, v) ==
    CASE type = "int" -> (CASE v = 0 -> "0" [] v = 2 -> "2")
      [] type = "float64" -> (CASE v = "0.5" -> "0.5")
      [] type = "bool" -> IF v THEN "true" ELSE "false"

\* The tagged fields of a request, in the order of declaration, without the
\* file fields that are nil.
Present(r) ==
    SelectSeq(Fields(r.type), LAMBDA f : ~(f.type = "file" /\ r[f.go].isNil))

\* C14: the multipart body newDataRequest builds has, in the order of the
\* declaration of the fields, exactly one part per tagged field of the
\* request but for the file fields that are nil: a file part under the base
\* name of the file for a file handle, the text itself for a string field,
\* and the JSON text for any other field (true for the boolean true), also
\* when the value is zero or empty.
C14_OnePartPerField ==
    /\ jsonField("bool", TRUE).text = JSONText("bool", TRUE)
    /\ Marshaled =>
          LET parts == built[Len(built)].body
              fs == Present(request)
          IN  /\ Len(parts) = Len(fs)
              /\ \A k \in 1..Len(fs) :
                    LET f == fs[k]
                        v == request[f.go]
                    IN  /\ parts[k].name = f.wire
                        /\ parts[k].file = (f.type = "file")
                        /\ f.type = "file" => parts[k].filename = Base(v.name)
                        /\ f.type = "string" => parts[k].value = v
                        /\ f.type \notin {"file", "string"} =>
                                parts[k].value = JSONText(f.type, v)

\* An image edit with an image, no mask, N = 0 and no user: six parts, the
\* mask skipped, "0" for n and the empty text for user.
C14_Witness ==
    /\ Marshaled
    /\ request.type = "ImageEditRequest"
    /\ request.Mask.isNil
    /\ request.N = 0
    /\ Len(built[Len(built)].body) = 6
    /\ built[Len(built)].body[3].value = "0"
    /\ built[Len(built)].body[6] = FieldPart("user", "")


\* C15: every call of the multipart marshaler on a request that holds an
\* open file handle produces a file part with the full contents of the file,
\* a second call on the same request object included.
C15_FullContentsEveryCall ==
    \A req \in Built :
        req.mode = "multipart" =>
            \A k \in DOMAIN req.body :
                req.body[k].file =>
                    \E p \in LocalFiles :
                        /\ Base(p) = req.body[k].filename
                        /\ req.body[k].value = FileContents(p)


\* The file fields of a request.
FileFields(r) ==
    IF r.type \in {"ImageEditRequest", "ImageVariationRequest",
                   "AudioTranscriptionRequest", "AudioTranslationRequest",
                   "FileUploadRequest"}
    THEN {Fields(r.type)[i].go :
            i \in {j \in DOMAIN Fields(r.type) : Fields(r.type)[j].type = "file"}}
    ELSE {}

\* The last call on the request object was the named one.
LastCall(name) == calls # <<>> /\ calls[Len(calls)].name = name

\* C16: for every request type, after Flush every file handle the request
\* holds is closed; after Flush on an ImageEditRequest that holds an Image
\* and a Mask handle, both are closed.
C16_FlushClosesEveryHandle ==
    LastCall("Flush") =>
        \A f \in FileFields(request) :
            ~request[f].isNil => request[f].closed


\* No file field of the request holds a handle.
NeverOpened == \A f \in FileFields(request) : request[f].isNil

\* C17: Flush is idempotent and never fails: after a call of Flush, on a
\* request that never opened a file or whose handles are closed already,
\* one more call returns without an error and leaves the request as it is,
\* so that any number of calls in a row leave what one call leaves.
C17_FlushIdempotent ==
    LastCall("Flush") =>
        /\ ret.err = NoErr
        /\ Flush(request) = request
        /\ NeverOpened => request \in NewRequests

\* Flush called twice in a row on a request with a file field that never
\* opened a file.
C17_Witness ==
    /\ Len(calls) >= 2
    /\ calls[Len(calls)].name = "Flush"
    /\ calls[Len(calls) - 1].name = "Flush"
    /\ FileFields(request) # {}
    /\ NeverOpened


\* The client has been built by New.
Configured == pc # "new" /\ configs # <<>>

\* The most recent value of a field of the Config values that is not the
\* zero value of the field, else the given default.
Latest(field, zero, default) ==
    LET set == {i \in DOMAIN configs : configs[i][field] # zero}
    IN  IF set = {} THEN default
        ELSE configs[CHOOSE i \in set : \A j \in set : j <= i][field]

\* C18: after New and any sequence of Configure calls, every field of the
\* client holds the most recent value supplied for it that is not empty; a
\* field no Config has set holds its default: the default base URL, the
\* default number of parallel tasks, the background context, the default
\* HTTP client, and nothing for the key, the organization and the headers.
C18_LatestNonEmptyValue ==
    Configured =>
        /\ client.apiKey = Latest("APIKey", "", "")
        /\ client.orgID = Latest("OrgID", "", "")
        /\ client.apiBaseURL = Latest("APIBaseURL", "", apiBaseURL)
        /\ client.parallelTasks = Latest("ParallelTasks", 0, parallelTasks)
        /\ client.context = Latest("Context", "nil", "background")
        /\ client.httpHeaders = Latest("HTTPHeaders", {}, {})
        /\ client.httpClient =
                Latest("HTTPClient", NilHTTPClient, HTTPClient(requestTimeout))

\* A key set by one Config and replaced by the next, which leaves the base
\* URL unset as the first did: the second key and the default base URL.
C18_Witness ==
    /\ Configured
    /\ Len(configs) = 2
    /\ configs[1].APIKey = "sk"
    /\ configs[2].APIKey = "sk2"
    /\ client.apiKey = "sk2"
    /\ client.apiBaseURL = apiBaseURL
    /\ client.context = "background"


\* C19: the RequestTimeout of a Config is the maximum duration of the
\* requests the client sends: when no Config supplies an HTTP client, the
\* timeout of the client's HTTP client is the RequestTimeout that was
\* configured, and one minute only when none was.
C19_ConfiguredTimeoutUsed ==
    (Configured /\ \A i \in DOMAIN configs : configs[i].HTTPClient = NilHTTPClient) =>
        /\ ~client.httpClient.isNil
        /\ client.httpClient.Timeout = Latest("RequestTimeout", 0, requestTimeout)

\* C20: Client.Endpoint returns the base API URL when the URL cannot be
\* built, so that no request the marshaler builds for a client with a base
\* URL that does not parse has an empty or corrupt URL.
C20_EndpointFallsBackToBase ==
    Configured =>
        /\ urlBuild(client.apiBaseURL, <<"files">>).err # NoErr =>
                Endpoint(client, <<"files">>) = <<client.apiBaseURL>>
        /\ \A req \in Built :
                /\ req.url # <<>>
                /\ req.url[1] = client.apiBaseURL


\* C21: Files called with N >= 1 file IDs sends, for each ID, a GET to the
\* files endpoint of that ID, the resource path FileDelete uses.
C21_FilesFetchesFiles ==
    (Returned({"Files"}) /\ N >= 1) =>
        \A i \in Items :
            /\ Len(sent[i]) = 1
            /\ sent[i][1] = Endpoint(client, <<"files", keys[i]>>)


\* The bytes the inline base64 texts stand for.
Decoded(text) ==
    CASE text = "QUJD" -> "ABC"
      [] text = "eHl6" -> "xyz"
      [] OTHER -> "?"

\* A Save has returned whose descriptors, if any, all carry inline base64
\* bytes, whose destination is the existing directory, and during which no
\* write was refused by the file system.
SavedInline ==
    /\ pc = "returned"
    /\ kind \in {"Save", "saveByBase64"}
    /\ dest = "/out"
    /\ \A i \in Items : keys[i] \in {"QUJD", "eHl6"}
    /\ \A j \in DOMAIN errors : errors[j].kind # "ioutil.WriteFile"

\* C22: Save on a response whose N >= 0 descriptors all carry inline base64
\* bytes, with an existing directory as destination, returns success and
\* leaves exactly N distinct files: every descriptor is written once, and as
\* many files hold given bytes as descriptors decode to them; for N = 0 no
\* file is created.
C22_OneFilePerDescriptor ==
    SavedInline =>
        /\ ret.err = NoErr
        /\ Cardinality(files) = N
        /\ Cardinality({f.path : f \in files}) = N
        /\ \A i \in Items : started[i] = 1
        /\ \A f \in files :
              Cardinality({g \in files : g.content = f.content})
                = Cardinality({i \in Items : Decoded(keys[i]) = f.content})

\* Two descriptors with the same bytes saved into the directory: two files.
C22_Witness ==
    /\ SavedInline
    /\ N = 2
    /\ keys[1] = keys[2]
    /\ Cardinality(files) = 2


\* A batch save is under way or has returned.
Saving == kind \in SaveKinds

\* The name of the file of the item at position i - 1 when the destination
\* names a file: the separator and, from the second item on, the position
\* are put between the base name and the extension.
Numbered(i) ==
    CASE dest = "/out/img.png" -> FilePath("/out", "img", "_", i - 1, 0, ".png")
      [] dest = "/out/notes.txt" -> FilePath("/out", "notes", "_", i - 1, 0, ".txt")

Saved == pc = "returned" /\ kind \in SaveKinds

\* The items of a saveByBase64 whose text does not decode.
Undecodable == {i \in Items : keys[i] \notin {"QUJD", "eHl6", ""}}

\* C24: a batch save returns success if and only if no item failed;
\* otherwise it returns the error that was appended first, in time, to the
\* shared list; every failing item has appended its error exactly once (an
\* item of saveByBase64 leaves either its file or its error, and the items
\* that do not decode leave a decoding error each); and it returns only
\* after every item has run and finished.
C24_FirstRecordedError ==
    Saved =>
        /\ ret.err = NoErr <=> errors = <<>>
        /\ errors # <<>> => ret.err = errors[1]
        /\ wg = 0 /\ sem = 0
        /\ \A i \in Items : started[i] = 1 /\ ipc[i] = "done"
        /\ Len(errors) <= N
        /\ N <= Len(errors) + Cardinality(files)
        /\ kind = "saveByBase64" =>
              /\ Len(errors) + Cardinality(files) = N
              /\ Cardinality({j \in DOMAIN errors :
                                errors[j].kind = "base64.DecodeString"})
                    = Cardinality(Undecodable)

\* The second item failed before the first did: the error returned is the
\* one of the second item.
C24_Witness ==
    /\ Saved
    /\ kind = "saveByBase64"
    /\ N = 2
    /\ Undecodable = {1}
    /\ Len(errors) = 2
    /\ errors[2].kind = "base64.DecodeString"
    /\ ret.err = LibErr("ioutil.WriteFile")


\* C25: the Model of a ModerationRequest is optional: a request with an
\* Input and an empty Model passes the validation and is handed to the
\* marshaler.
C25_ModerationModelOptional ==
    (Returned({"Moderation"}) /\ request.Input # "" /\ request.Model = "") =>
        /\ ret.err # ErrModelRequired
        /\ built # <<>>


\* The items that were launched and have not given their token back, or
\* not taken one yet.
Launched == {i \in Items : ipc[i] \in {"spawned", "acquired", "stored"}}

\* The items that hold a token.
Holding == {i \in Items : ipc[i] \in {"acquired", "stored"}}

C27_TerminatesWithTokensReleased ==
    (pc = "launch") ~> (pc = "returned" /\ sem = 0 /\ wg = 0)

\* A fan-out call of two items with one token has returned, the first item
\* failed and the second succeeded, and no token is held.
C27_Witness ==
    /\ Returned(FanOutKinds)
    /\ N = 2
    /\ client.parallelTasks = 1
    /\ errs[1] # NoErr
    /\ errs[2] = NoErr
    /\ sem = 0


\* C28: after New and after any sequence of Configure calls,
\* Client.ParallelTasks() is at least 1, so that the semaphore a fan-out call
\* makes of it has a capacity of at least 1.
C28_ParallelTasksPositive ==
    Configured => client.parallelTasks >= 1


\* Only Open methods have been called on the request object.
OnlyOpened ==
    /\ calls # <<>>
    /\ \A j \in DOMAIN calls :
          calls[j].name \in {"OpenImageFile", "OpenMaskFile", "OpenAudioFile", "OpenFile"}

\* C29: for every upload request type, opening a file into a field closes
\* the handle the field held, if any, and no other handle: after any
\* sequence of Open calls no open handle is left that the request has
\* dropped, and every handle the request holds is open.
C29_OpenClosesOnlyPrevious ==
    OnlyOpened =>
        /\ leaked = {}
        /\ \A f \in FileFields(request) :
              ~request[f].isNil => ~request[f].closed


\* C30: saveByURL reports an error for an item whose remote fetch is
\* answered with a status that is no success, and writes no file for it: no
\* file holds the body of an answer whose status is no success.
C30_FailedFetchNotSaved ==
    kind = "saveByURL" =>
        \A f \in files :
            f.content \notin {r.body : r \in {x \in GetResponses("http://img/1") :
                                                x.err = NoErr /\ ~isSuccessfulCode(x.status)}}

====
